---- MODULE Spec2Model ----
(***************************************************************************)
(* Model of LaneDetectionV1.0.py: the LaneDetection object, its pipeline   *)
(* __call__ (preprocess, Canny, ROI mask, Hough, lane fitting, overlay)    *)
(* and the lane fitting method _lane_line_fitting invoked on its own.      *)
(*                                                                         *)
(* An image is its size and the straight strokes painted on it.  The cv2   *)
(* primitives are modelled by their contracts on such images: Canny marks  *)
(* the end pixels of every stroke, HoughLinesP reports a stroke when both  *)
(* of its end pixels are set in the map it is given, and reports None when *)
(* it finds nothing.  Points are <<x, y>>, segments <<x1, y1, x2, y2>>.     *)
(* When a call has returned or raised, the caller resumes: the locals of   *)
(* the call are gone and only the instance's attributes remain.            *)
(***************************************************************************)
EXTENDS Integers, Sequences, FiniteSets, TLC

\* ------------------------------------------------------------- bounds
\* most strokes in one image / most segments in one detector output
MaxSegs == 2
\* most calls made on one instance
MaxCalls == 2

\* ------------------------------------------------- program constants
\* the literal 0.2 of "slope >= 0.2" and "slope <= -0.2", as 1/5.  The
\* quotient of two pixel differences is a correctly rounded double, and no
\* such quotient other than 1/5 itself rounds to the double 0.2, so the
\* floating-point tests agree with the tests on the exact fraction.
ThresholdNum == 1
ThresholdDen == 5
\* the x-coordinates at which the fitted lines are evaluated
x1R == 550
x2R == 850
x1L == 120
x2L == 425

\* ------------------------------------------------------------ helpers
Abs(n) == IF n < 0 THEN -n ELSE n

Min2(a, b) == IF a <= b THEN a ELSE b

Max2(a, b) == IF a >= b THEN a ELSE b

RECURSIVE GCD(_, _)
GCD(a, b) == IF b = 0 THEN a ELSE GCD(b, a % b)

\* Python's int() of a float: truncation toward zero of num/den, den > 0
TruncDiv(num, den) == IF num >= 0 THEN num \div den ELSE -((-num) \div den)

RECURSIVE Sum(_)
Sum(s) == IF s = <<>> THEN 0 ELSE Head(s) + Sum(Tail(s))

RECURSIVE SumProd(_, _)
SumProd(s, t) == IF s = <<>> THEN 0 ELSE Head(s) * Head(t) + SumProd(Tail(s), Tail(t))

\* ------------------------------------------------------------- inputs
\* image sizes (height, width)
Dims == { <<540, 960>>, <<720, 1280>> }

\* strokes a road image may hold, in the order the detector reports them
SegA == <<600, 400, 800, 500>>
SegB == <<200, 500, 400, 400>>
SegC == <<300, 500, 450, 400>>
SegD == <<500, 350, 500, 450>>
SegE == <<420, 450, 620, 460>>
SegF == <<500, 400, 600, 420>>
SegG == <<610, 400, 510, 420>>
Strokes == << SegA, SegB, SegC, SegD, SegE, SegF, SegG >>

StrokeSet == { Strokes[k] : k \in 1..Len(Strokes) }

\* segments handed to _lane_line_fitting when it is invoked on its own
SegH == <<500, 460, 500, 360>>
SegI == <<550, 400, 850, 250>>
SegZ == <<500, 400, 500, 400>>
DirectSegs == { SegA, SegC, SegD, SegF, SegH, SegI, SegZ }

RECURSIVE SeqsUpTo(_, _)
SeqsUpTo(S, n) ==
    IF n = 0 THEN { <<>> }
    ELSE LET shorter == SeqsUpTo(S, n - 1)
         IN shorter \cup { Append(q, e) : q \in { r \in shorter : Len(r) = n - 1 }, e \in S }

Images ==
    { [h |-> d[1], w |-> d[2], marks |-> m] :
        d \in Dims, m \in { s \in SUBSET StrokeSet : Cardinality(s) <= MaxSegs } }

KSizes == { <<5, 5>>, <<4, 4>> }

NoPoints == [set |-> FALSE, pts |-> <<>>]

ExplicitRoi == [set |-> TRUE, pts |-> << <<0, 540>>, <<450, 330>>, <<570, 330>>, <<960, 540>> >>]

RoiPointArgs == { NoPoints, ExplicitRoi }

\* ------------------------------------------------------------- values
NoExc == [type |-> "none", line |-> 0]

Exc(t, l) == [type |-> t, line |-> l]

NoMap == [h |-> 0, w |-> 0, px |-> {}]

NoImage == [h |-> 0, w |-> 0, marks |-> {}]

NoGray == [h |-> 0, w |-> 0, marks |-> {}, channels |-> 0]

NoLines == [none |-> FALSE, segs |-> <<>>]

NoOverlay == [h |-> 0, w |-> 0, drawn |-> {}]

NoRes == [h |-> 0, w |-> 0, marks |-> {}, drawn |-> {}]

\* the attributes __init__ sets; roi_points does not exist yet (set = FALSE)
Construct(ksize, roi_point) ==
    [ksize |-> ksize, sigmaX |-> 0, sigmaY |-> 0,
     threshold1 |-> 100, threshold2 |-> 200, aperture_size |-> 300,
     roi_point |-> roi_point, rho |-> 1, theta |-> "pi/180",
     threshold |-> 30, min_line_len |-> 20, max_line_gap |-> 20,
     roi_points |-> NoPoints]

VARIABLES attrs, cfg0, attrs_before, pc, entry, calls, img, gauss, edge, roi,
          lines, numeric, i, right_x, right_y, left_x, left_y, line_img, res, exc

vars == <<attrs, cfg0, attrs_before, pc, entry, calls, img, gauss, edge, roi,
          lines, numeric, i, right_x, right_y, left_x, left_y, line_img, res, exc>>

\* ---------------------------------------------------- _image_preprocess
\* cv2.GaussianBlur accepts a kernel only when both sides are odd
KsizeOdd(ksize) == ksize[1] % 2 = 1 /\ ksize[2] % 2 = 1

\* cvtColor + GaussianBlur: a one-channel image of the same size, or cv2.error
ImagePreprocess(a, im) ==
    IF KsizeOdd(a.ksize)
    THEN [exc |-> NoExc,
          out |-> [h |-> im.h, w |-> im.w, marks |-> im.marks, channels |-> 1]]
    ELSE [exc |-> Exc("cv2.error", 104), out |-> NoGray]

\* ----------------------------------------------------------- _edge_canny
EndPixels(seg) == { <<seg[1], seg[2]>>, <<seg[3], seg[4]>> }

EdgeCanny(a, g) ==
    [h |-> g.h, w |-> g.w, px |-> UNION { EndPixels(s) : s \in g.marks }]

\* -------------------------------------------------------- _roi_trapezoid
\* [left_down, left_top, right_top, right_down] as the code builds them
DefaultRoiPoints(h, w) == << <<500, 330>>, <<0, h>>, <<570, 330>>, <<w, h>> >>

\* a slip that builds the polygon once and keeps it for every later image
RoiPointsAssignedOnce(a, h, w) ==
    IF ~a.roi_point.set /\ ~a.roi_points.set
    THEN [a EXCEPT !.roi_points = [set |-> TRUE, pts |-> DefaultRoiPoints(h, w)]]
    ELSE a

\* "if self.roi_point is None: ... self.roi_points = np.array([...])"
RoiPointsAssigned(a, h, w) ==
    IF ~a.roi_point.set
    THEN [a EXCEPT !.roi_points = [set |-> TRUE, pts |-> DefaultRoiPoints(h, w)]]
    ELSE a

YMin(pts) ==
    CHOOSE y \in { pts[k][2] : k \in DOMAIN pts } : \A k \in DOMAIN pts : pts[k][2] >= y

YMax(pts) ==
    CHOOSE y \in { pts[k][2] : k \in DOMAIN pts } : \A k \in DOMAIN pts : pts[k][2] <= y

\* the first vertex of least y: where both edge chains of the fill start
IMin(pts) ==
    CHOOSE k \in DOMAIN pts :
        pts[k][2] = YMin(pts) /\ \A j \in 1..(k - 1) : pts[j][2] # YMin(pts)

\* the k-th vertex of the chain that steps di vertices at a time from IMin
ChainVertex(pts, di, k) == pts[((IMin(pts) - 1 + k * di) % Len(pts)) + 1]

\* the chain's edge on scan line y: vertices at or above the line are passed
ActiveEdge(pts, di, y) ==
    LET Reach(k) == \/ ChainVertex(pts, di, k + 1)[2] > y
                    \/ ChainVertex(pts, di, k + 1)[2] = YMax(pts)
        k0 == CHOOSE k \in 0..(Len(pts) - 1) :
                  Reach(k) /\ \A j \in 0..(k - 1) : ~Reach(j)
    IN << ChainVertex(pts, di, k0), ChainVertex(pts, di, k0 + 1) >>

\* (p.x - x of the edge on p's scan line), times the edge's height
EdgeOffset(e, p) ==
    LET dy == e[2][2] - e[1][2]
        dx == e[2][1] - e[1][1]
    IN IF dy > 0 THEN (p[1] - e[1][1]) * dy - (p[2] - e[1][2]) * dx
       ELSE p[1] - e[2][1]

\* the span filled on p's scan line lies between the two chains' edges
InSpan(pts, p) ==
    /\ YMin(pts) <= p[2]
    /\ p[2] <= YMax(pts)
    /\ LET a == EdgeOffset(ActiveEdge(pts, 1, p[2]), p)
           b == EdgeOffset(ActiveEdge(pts, Len(pts) - 1, p[2]), p)
       IN (a >= 0 /\ b <= 0) \/ (a <= 0 /\ b >= 0)

\* the outline: every side of the vertex sequence is drawn one pixel wide
OnOutline(pts, p) ==
    \E k \in DOMAIN pts :
        LET a == pts[k]
            b == pts[(k % Len(pts)) + 1]
            dx == b[1] - a[1]
            dy == b[2] - a[2]
            cr == (p[1] - a[1]) * dy - (p[2] - a[2]) * dx
        IN /\ Min2(a[1], b[1]) <= p[1] /\ p[1] <= Max2(a[1], b[1])
           /\ Min2(a[2], b[2]) <= p[2] /\ p[2] <= Max2(a[2], b[2])
           /\ 2 * Abs(cr) <= Max2(Abs(dx), Abs(dy))

\* cv2.fillConvexPoly(mask, pts, 255) on an h x w mask of zeros
FillConvexPoly(pts, h, w, p) ==
    /\ 0 <= p[1] /\ p[1] < w
    /\ 0 <= p[2] /\ p[2] < h
    /\ (InSpan(pts, p) \/ OnOutline(pts, p))

\* the whole method: the attribute write, the fill and the bitwise and
RoiTrapezoid(a, e) ==
    LET a2 == RoiPointsAssigned(a, e.h, e.w)
    IN IF ~a2.roi_points.set
       THEN [attrs |-> a2, exc |-> Exc("AttributeError", 126), out |-> NoMap]
       ELSE [attrs |-> a2, exc |-> NoExc,
             out |-> [h |-> e.h, w |-> e.w,
                      px |-> { p \in e.px : FillConvexPoly(a2.roi_points.pts, e.h, e.w, p) }]]

\* --------------------------------------------------- _Hough_line_fitting
\* cv2.HoughLinesP gives None when it finds no segment; "for line in lines"
\* then raises TypeError
HoughLineFitting(a, r) ==
    LET Found(s) == EndPixels(s) \subseteq r.px
        found == SelectSeq(Strokes, Found)
    IN IF found = <<>>
       THEN [exc |-> Exc("TypeError", 140), lines |-> [none |-> TRUE, segs |-> <<>>]]
       ELSE [exc |-> NoExc, lines |-> [none |-> FALSE, segs |-> found]]

\* ---------------------------------------------------- _lane_line_fitting
\* slope = ((y2-y1)/(x2-x1)).  With numpy integers (the detector's output) a
\* zero divisor gives inf, -inf or nan and a warning; with Python integers
\* it raises ZeroDivisionError.
Slope(seg, num) ==
    LET dy == seg[4] - seg[2]
        dx == seg[3] - seg[1]
    IN IF dx # 0 THEN [kind |-> "finite", num |-> dy, den |-> dx]
       ELSE IF num = "python" THEN [kind |-> "zerodiv", num |-> dy, den |-> dx]
       ELSE IF dy > 0 THEN [kind |-> "inf", num |-> dy, den |-> dx]
       ELSE IF dy < 0 THEN [kind |-> "-inf", num |-> dy, den |-> dx]
       ELSE [kind |-> "nan", num |-> dy, den |-> dx]

\* a slip that turns ">=" into ">"
SlopeGreater(s) ==
    \/ s.kind = "inf"
    \/ /\ s.kind = "finite"
       /\ \/ (s.den > 0 /\ ThresholdDen * s.num > ThresholdNum * s.den)
          \/ (s.den < 0 /\ ThresholdDen * s.num < ThresholdNum * s.den)

\* slope >= 0.2
SlopeGE(s) ==
    \/ s.kind = "inf"
    \/ /\ s.kind = "finite"
       /\ \/ (s.den > 0 /\ ThresholdDen * s.num >= ThresholdNum * s.den)
          \/ (s.den < 0 /\ ThresholdDen * s.num <= ThresholdNum * s.den)

\* slope <= -0.2
SlopeLE(s) ==
    \/ s.kind = "-inf"
    \/ /\ s.kind = "finite"
       /\ \/ (s.den > 0 /\ ThresholdDen * s.num <= -(ThresholdNum * s.den))
          \/ (s.den < 0 /\ ThresholdDen * s.num >= -(ThresholdNum * s.den))

NoSets == [right_x |-> <<>>, right_y |-> <<>>, left_x |-> <<>>, left_y |-> <<>>,
           exc |-> NoExc]

\* a slip that sends the steep positive slopes to the left lists
ClassifySwapped(ps, seg, num) ==
    LET s == Slope(seg, num)
    IN IF s.kind = "zerodiv" THEN [ps EXCEPT !.exc = Exc("ZeroDivisionError", 155)]
       ELSE IF SlopeGE(s)
       THEN [ps EXCEPT !.left_x = ps.left_x \o <<seg[1], seg[3]>>,
                       !.left_y = ps.left_y \o <<seg[2], seg[4]>>]
       ELSE IF SlopeLE(s)
       THEN [ps EXCEPT !.right_x = ps.right_x \o <<seg[1], seg[3]>>,
                       !.right_y = ps.right_y \o <<seg[2], seg[4]>>]
       ELSE ps

\* one turn of the loop body: the division, the two tests, the extends
Classify(ps, seg, num) ==
    LET s == Slope(seg, num)
    IN IF s.kind = "zerodiv" THEN [ps EXCEPT !.exc = Exc("ZeroDivisionError", 155)]
       ELSE IF SlopeGE(s)
       THEN [ps EXCEPT !.right_x = ps.right_x \o <<seg[1], seg[3]>>,
                       !.right_y = ps.right_y \o <<seg[2], seg[4]>>]
       ELSE IF SlopeLE(s)
       THEN [ps EXCEPT !.left_x = ps.left_x \o <<seg[1], seg[3]>>,
                       !.left_y = ps.left_y \o <<seg[2], seg[4]>>]
       ELSE ps

\* the whole loop over the detector's segments, stopping at an exception
RECURSIVE ClassifyAll(_, _, _)
ClassifyAll(ps, segs, num) ==
    IF segs = <<>> \/ ps.exc # NoExc THEN ps
    ELSE ClassifyAll(Classify(ps, Head(segs), num), Tail(segs), num)

\* int(np.poly1d(np.polyfit(xs, ys, 1))(X)) for non-empty xs: the least
\* squares line through the points, in exact arithmetic, truncated.  When
\* every x is the same value c the fit is rank deficient and polyfit gives
\* the least-norm line through the mean, y = mean(ys) * (X + c) / (2c).
PolyFitAt(xs, ys, X) ==
    LET n == Len(xs)
        Sx == Sum(xs)
        Sy == Sum(ys)
        D == n * SumProd(xs, xs) - Sx * Sx
        Nm == n * SumProd(xs, ys) - Sx * Sy
        g == GCD(Abs(Nm), D)
    IN IF D # 0
       THEN TruncDiv(Sy * (D \div g) + (Nm \div g) * (n * X - Sx), n * (D \div g))
       ELSE TruncDiv(Sy * (X + xs[1]), 2 * n * xs[1])

\* polyfit, poly1d, the two evaluations: the line to draw, or the TypeError
\* np.polyfit raises for an empty x
FitLine(xs, ys, X1, X2, line) ==
    IF xs = <<>>
    THEN [exc |-> Exc("TypeError", line), seg |-> <<>>]
    ELSE [exc |-> NoExc, seg |-> <<X1, PolyFitAt(xs, ys, X1), X2, PolyFitAt(xs, ys, X2)>>]

\* the method as a whole: what it returns (the overlay) or raises
LaneLineFitting(im, segs, num) ==
    LET ps == ClassifyAll(NoSets, segs, num)
        r == FitLine(ps.right_x, ps.right_y, x1R, x2R, 165)
        l == FitLine(ps.left_x, ps.left_y, x1L, x2L, 172)
    IN IF ps.exc # NoExc THEN [exc |-> ps.exc, out |-> NoOverlay]
       ELSE IF r.exc # NoExc THEN [exc |-> r.exc, out |-> NoOverlay]
       ELSE IF l.exc # NoExc THEN [exc |-> l.exc, out |-> NoOverlay]
       ELSE [exc |-> NoExc, out |-> [h |-> im.h, w |-> im.w, drawn |-> {r.seg, l.seg}]]

\* --------------------------------------------------- _weighted_img_lines
\* cv2.addWeighted(img, 1, line_img, 1, 0): the source with the overlay added
WeightedImgLines(im, ov) ==
    [h |-> im.h, w |-> im.w, marks |-> im.marks, drawn |-> ov.drawn]

\* ------------------------------------------------------------- __call__
\* what a call returns or raises on an instance whose attributes are a
Pipeline(a, im) ==
    LET g == ImagePreprocess(a, im)
        e == EdgeCanny(a, g.out)
        r == RoiTrapezoid(a, e)
        hl == HoughLineFitting(a, r.out)
        lf == LaneLineFitting(im, hl.lines.segs, "numpy")
    IN IF g.exc # NoExc THEN [exc |-> g.exc, res |-> NoRes]
       ELSE IF r.exc # NoExc THEN [exc |-> r.exc, res |-> NoRes]
       ELSE IF hl.exc # NoExc THEN [exc |-> hl.exc, res |-> NoRes]
       ELSE IF lf.exc # NoExc THEN [exc |-> lf.exc, res |-> NoRes]
       ELSE [exc |-> NoExc, res |-> WeightedImgLines(im, lf.out)]

\* ------------------------------------------------------- the state machine
\* the state after LaneDetection(ksize=..., roi_point=...)
Init ==
    /\ \E ks \in KSizes, rp \in RoiPointArgs : attrs = Construct(ks, rp)
    /\ cfg0 = attrs
    /\ attrs_before = attrs
    /\ pc = "idle"
    /\ entry = "none"
    /\ calls = 0
    /\ img = NoImage
    /\ gauss = NoGray
    /\ edge = NoMap
    /\ roi = NoMap
    /\ lines = NoLines
    /\ numeric = "numpy"
    /\ i = 1
    /\ right_x = <<>>
    /\ right_y = <<>>
    /\ left_x = <<>>
    /\ left_y = <<>>
    /\ line_img = NoOverlay
    /\ res = NoRes
    /\ exc = NoExc

\* the call has ended: its result or its exception is with the caller
Resting == pc \in {"returned", "raised"}

\* a caller enters lanedetection(img): fresh locals, nothing raised yet
Call(im) ==
    /\ pc = "idle"
    /\ calls < MaxCalls
    /\ calls' = calls + 1
    /\ entry' = "call"
    /\ attrs_before' = attrs
    /\ img' = im
    /\ gauss' = NoGray
    /\ edge' = NoMap
    /\ roi' = NoMap
    /\ lines' = NoLines
    /\ numeric' = "numpy"
    /\ i' = 1
    /\ right_x' = <<>>
    /\ right_y' = <<>>
    /\ left_x' = <<>>
    /\ left_y' = <<>>
    /\ line_img' = NoOverlay
    /\ res' = NoRes
    /\ exc' = NoExc
    /\ pc' = "preprocess"
    /\ UNCHANGED <<attrs, cfg0>>

\* gauss = self._image_preprocess(img)
CallImagePreprocess ==
    /\ pc = "preprocess"
    /\ LET r == ImagePreprocess(attrs, img)
       IN /\ exc' = r.exc
          /\ gauss' = r.out
          /\ pc' = IF r.exc = NoExc THEN "canny" ELSE "raised"
    /\ UNCHANGED <<attrs, cfg0, attrs_before, entry, calls, img, edge, roi, lines,
                   numeric, i, right_x, right_y, left_x, left_y, line_img, res>>

\* edge = self._edge_canny(gauss)
CallEdgeCanny ==
    /\ pc = "canny"
    /\ edge' = EdgeCanny(attrs, gauss)
    /\ pc' = "roi"
    /\ UNCHANGED <<attrs, cfg0, attrs_before, entry, calls, img, gauss, roi, lines,
                   numeric, i, right_x, right_y, left_x, left_y, line_img, res, exc>>

\* roi = self._roi_trapezoid(edge)
CallRoiTrapezoid ==
    /\ pc = "roi"
    /\ LET r == RoiTrapezoid(attrs, edge)
       IN /\ attrs' = r.attrs
          /\ exc' = r.exc
          /\ roi' = r.out
          /\ pc' = IF r.exc = NoExc THEN "hough" ELSE "raised"
    /\ UNCHANGED <<cfg0, attrs_before, entry, calls, img, gauss, edge, lines,
                   numeric, i, right_x, right_y, left_x, left_y, line_img, res>>

\* lines = self._Hough_line_fitting(roi); then _lane_line_fitting starts with
\* a zero overlay and four empty lists
CallHoughLineFitting ==
    /\ pc = "hough"
    /\ LET r == HoughLineFitting(attrs, roi)
       IN /\ lines' = r.lines
          /\ exc' = r.exc
          /\ pc' = IF r.exc = NoExc THEN "fit_loop" ELSE "raised"
          /\ line_img' = IF r.exc = NoExc
                         THEN [h |-> img.h, w |-> img.w, drawn |-> {}]
                         ELSE line_img
    /\ UNCHANGED <<attrs, cfg0, attrs_before, entry, calls, img, gauss, edge, roi,
                   numeric, i, right_x, right_y, left_x, left_y, res>>

\* a caller enters self._lane_line_fitting(img, lines) directly, with a
\* detector-style array (numpy) or with nested lists of Python integers
CallLaneLineFitting(im, segs, num) ==
    /\ pc = "idle"
    /\ calls < MaxCalls
    /\ calls' = calls + 1
    /\ entry' = "lane_line_fitting"
    /\ attrs_before' = attrs
    /\ img' = im
    /\ gauss' = NoGray
    /\ edge' = NoMap
    /\ roi' = NoMap
    /\ lines' = [none |-> FALSE, segs |-> segs]
    /\ numeric' = num
    /\ i' = 1
    /\ right_x' = <<>>
    /\ right_y' = <<>>
    /\ left_x' = <<>>
    /\ left_y' = <<>>
    /\ line_img' = [h |-> im.h, w |-> im.w, drawn |-> {}]
    /\ res' = NoRes
    /\ exc' = NoExc
    /\ pc' = "fit_loop"
    /\ UNCHANGED <<attrs, cfg0>>

\* one turn of "for line in lines: for x1, y1, x2, y2 in line:"
ClassifySegment ==
    /\ pc = "fit_loop"
    /\ i <= Len(lines.segs)
    /\ LET ps == Classify([right_x |-> right_x, right_y |-> right_y,
                           left_x |-> left_x, left_y |-> left_y, exc |-> NoExc],
                          lines.segs[i], numeric)
       IN /\ right_x' = ps.right_x
          /\ right_y' = ps.right_y
          /\ left_x' = ps.left_x
          /\ left_y' = ps.left_y
          /\ exc' = ps.exc
          /\ pc' = IF ps.exc = NoExc THEN "fit_loop" ELSE "raised"
          /\ i' = IF ps.exc = NoExc THEN i + 1 ELSE i
    /\ UNCHANGED <<attrs, cfg0, attrs_before, entry, calls, img, gauss, edge, roi,
                   lines, numeric, line_img, res>>

\* right_fit = np.polyfit(right_x, right_y, 1) ... cv2.line(line_img, ...)
FitRight ==
    /\ pc = "fit_loop"
    /\ i > Len(lines.segs)
    /\ LET r == FitLine(right_x, right_y, x1R, x2R, 165)
       IN /\ exc' = r.exc
          /\ pc' = IF r.exc = NoExc THEN "fit_left" ELSE "raised"
          /\ line_img' = IF r.exc = NoExc
                         THEN [line_img EXCEPT !.drawn = line_img.drawn \cup {r.seg}]
                         ELSE line_img
    /\ UNCHANGED <<attrs, cfg0, attrs_before, entry, calls, img, gauss, edge, roi,
                   lines, numeric, i, right_x, right_y, left_x, left_y, res>>

\* left_fit = np.polyfit(left_x, left_y, 1) ... cv2.line ... return line_img
FitLeft ==
    /\ pc = "fit_left"
    /\ LET l == FitLine(left_x, left_y, x1L, x2L, 172)
           ov == [line_img EXCEPT !.drawn = line_img.drawn \cup {l.seg}]
       IN /\ exc' = l.exc
          /\ line_img' = IF l.exc = NoExc THEN ov ELSE line_img
          /\ pc' = IF l.exc # NoExc THEN "raised"
                   ELSE IF entry = "call" THEN "weighted" ELSE "returned"
          /\ res' = IF l.exc = NoExc /\ entry # "call"
                    THEN [h |-> ov.h, w |-> ov.w, marks |-> {}, drawn |-> ov.drawn]
                    ELSE res
    /\ UNCHANGED <<attrs, cfg0, attrs_before, entry, calls, img, gauss, edge, roi,
                   lines, numeric, i, right_x, right_y, left_x, left_y>>

\* res = self._weighted_img_lines(img, line_img); return res
CallWeightedImgLines ==
    /\ pc = "weighted"
    /\ res' = WeightedImgLines(img, line_img)
    /\ pc' = "returned"
    /\ UNCHANGED <<attrs, cfg0, attrs_before, entry, calls, img, gauss, edge, roi,
                   lines, numeric, i, right_x, right_y, left_x, left_y, line_img, exc>>

\* the caller goes on after the call: the frame of the call, its result and
\* its exception are gone, the instance and its attributes stay
CallerResumes ==
    /\ Resting
    /\ pc' = "idle"
    /\ entry' = "none"
    /\ attrs_before' = attrs
    /\ img' = NoImage
    /\ gauss' = NoGray
    /\ edge' = NoMap
    /\ roi' = NoMap
    /\ lines' = NoLines
    /\ numeric' = "numpy"
    /\ i' = 1
    /\ right_x' = <<>>
    /\ right_y' = <<>>
    /\ left_x' = <<>>
    /\ left_y' = <<>>
    /\ line_img' = NoOverlay
    /\ res' = NoRes
    /\ exc' = NoExc
    /\ UNCHANGED <<attrs, cfg0, calls>>

Next ==
    \/ \E im \in Images : Call(im)
    \/ CallImagePreprocess
    \/ CallEdgeCanny
    \/ CallRoiTrapezoid
    \/ CallHoughLineFitting
    \/ \E d \in Dims, segs \in SeqsUpTo(DirectSegs, MaxSegs), num \in {"numpy", "python"} :
           CallLaneLineFitting([h |-> d[1], w |-> d[2], marks |-> {}], segs, num)
    \/ ClassifySegment
    \/ FitRight
    \/ FitLeft
    \/ CallWeightedImgLines
    \/ CallerResumes

Spec == Init /\ [][Next]_vars

\* ---------------------------------------------------------------------
\* Properties
\* ---------------------------------------------------------------------
Sign(n) == IF n > 0 THEN 1 ELSE IF n < 0 THEN -1 ELSE 0

Orient(a, b, c) == Sign((b[1] - a[1]) * (c[2] - a[2]) - (b[2] - a[2]) * (c[1] - a[1]))

WithinBox(a, b, c) ==
    /\ Min2(a[1], b[1]) <= c[1] /\ c[1] <= Max2(a[1], b[1])
    /\ Min2(a[2], b[2]) <= c[2] /\ c[2] <= Max2(a[2], b[2])

\* the closed segments ab and cd have a common point
SegmentsMeet(a, b, c, d) ==
    \/ Orient(a, b, c) # Orient(a, b, d) /\ Orient(c, d, a) # Orient(c, d, b)
    \/ Orient(a, b, c) = 0 /\ WithinBox(a, b, c)
    \/ Orient(a, b, d) = 0 /\ WithinBox(a, b, d)
    \/ Orient(c, d, a) = 0 /\ WithinBox(c, d, a)
    \/ Orient(c, d, b) = 0 /\ WithinBox(c, d, b)

NextVertex(pts, k) == pts[(k % Len(pts)) + 1]

\* no two non-adjacent sides of the closed vertex sequence meet
IsSimplePolygon(pts) ==
    \A k, j \in DOMAIN pts :
        (k + 1 < j /\ ~(k = 1 /\ j = Len(pts)))
            => ~SegmentsMeet(pts[k], NextVertex(pts, k), pts[j], NextVertex(pts, j))

\* p is inside the closed polygon pts: a ray to the right of p crosses an
\* odd number of sides
InsidePolygon(pts, p) ==
    LET Crosses(k) ==
            LET a == pts[k]
                b == NextVertex(pts, k)
                dy == b[2] - a[2]
                t == (p[1] - a[1]) * dy - (p[2] - a[2]) * (b[1] - a[1])
            IN /\ (a[2] > p[2]) # (b[2] > p[2])
               /\ IF dy > 0 THEN t < 0 ELSE t > 0
    IN Cardinality({ k \in DOMAIN pts : Crosses(k) }) % 2 = 1

\* the polygon the instance is configured with for the map being masked
ConfiguredPolygon ==
    IF attrs.roi_point.set THEN attrs.roi_point.pts ELSE DefaultRoiPoints(edge.h, edge.w)

RECURSIVE XsOf(_)
XsOf(segs) == IF segs = <<>> THEN <<>> ELSE <<Head(segs)[1], Head(segs)[3]>> \o XsOf(Tail(segs))

RECURSIVE YsOf(_)
YsOf(segs) == IF segs = <<>> THEN <<>> ELSE <<Head(segs)[2], Head(segs)[4]>> \o YsOf(Tail(segs))

IsVertical(seg) == seg[1] = seg[3]

\* the segments the loop has been through
Processed == SubSeq(lines.segs, 1, i - 1)

\* _lane_line_fitting has run to its end: it returned, or a fit raised
LaneFitEnded ==
    \/ pc = "weighted"
    \/ pc = "returned"
    \/ pc = "raised" /\ exc.line \in {165, 172}

\* the ROI stage of a pipeline call has run to its end
RoiEnded == entry = "call" /\ (pc = "hough" \/ (pc = "raised" /\ exc.line = 126))

\* C1: when the detector finds no segment, the pipeline call completes
\* without raising and returns the source image with no line drawn.
C1_NoSegmentsCompletes ==
    (entry = "call" /\ Resting /\ lines.none)
        => /\ pc = "returned"
           /\ exc = NoExc
           /\ res = [h |-> img.h, w |-> img.w, marks |-> img.marks, drawn |-> {}]

\* C2: a turn of the loop on a vertical segment (x1 = x2) adds nothing to
\* either PointSet and does not fail on the division.
C2_VerticalExcluded ==
    [][(pc = "fit_loop" /\ i <= Len(lines.segs) /\ IsVertical(lines.segs[i]))
          => /\ exc' = NoExc
             /\ pc' = "fit_loop"
             /\ right_x' = right_x /\ right_y' = right_y
             /\ left_x' = left_x /\ left_y' = left_y]_vars

\* C3: with exactly one PointSet empty after classification, lane fitting
\* does not fail, draws the fitted line of the other side and nothing else.
C3_EmptySideSkipped ==
    (LaneFitEnded /\ ((right_x = <<>>) # (left_x = <<>>)))
        => /\ exc = NoExc
           /\ line_img.drawn =
                IF left_x = <<>>
                THEN { FitLine(right_x, right_y, x1R, x2R, 165).seg }
                ELSE { FitLine(left_x, left_y, x1L, x2L, 172).seg }

OnRightSide(seg) ==
    LET dy == seg[4] - seg[2]
        dx == seg[3] - seg[1]
    IN IF dx # 0 THEN 5 * dy * dx >= dx * dx ELSE dy > 0

OnLeftSide(seg) ==
    LET dy == seg[4] - seg[2]
        dx == seg[3] - seg[1]
    IN IF dx # 0 THEN 5 * dy * dx <= -(dx * dx) ELSE dy < 0

\* C5: after any number of turns of the loop, the right PointSet holds
\* exactly both endpoints of every processed segment of slope >= 0.2, the
\* left one those of every processed segment of slope <= -0.2, a segment
\* with |slope| < 0.2 is in neither, and the x- and y-lists of a PointSet
\* have the same length.
C5_PointSetsBySlope ==
    /\ right_x = XsOf(SelectSeq(Processed, OnRightSide))
    /\ right_y = YsOf(SelectSeq(Processed, OnRightSide))
    /\ left_x = XsOf(SelectSeq(Processed, OnLeftSide))
    /\ left_y = YsOf(SelectSeq(Processed, OnLeftSide))
    /\ Len(right_x) = Len(right_y)
    /\ Len(left_x) = Len(left_y)
    /\ \A k \in 1..(i - 1) :
          ~IsVertical(lines.segs[k]) => ~(OnRightSide(lines.segs[k]) /\ OnLeftSide(lines.segs[k]))

C5_Witness ==
    /\ pc = "weighted"
    /\ lines.segs = <<SegF, SegG>>
    /\ right_x = <<500, 600>> /\ right_y = <<400, 420>>
    /\ left_x = <<610, 510>> /\ left_y = <<400, 420>>

\* C6: when __call__ returns, the instance has the attributes, with the
\* values, it had when the call started.
C6_AttributesUnchanged ==
    (entry = "call" /\ pc = "returned") => attrs = attrs_before

\* C7: _roi_trapezoid returns a map of the size of its input in which the
\* pixels inside the configured polygon keep their value and all others
\* are zero, for the default polygon and for one given through roi_point.
C7_RoiMaskExact ==
    RoiEnded
        => /\ exc = NoExc
           /\ roi.h = edge.h /\ roi.w = edge.w
           /\ roi.px = { p \in edge.px : InsidePolygon(ConfiguredPolygon, p) }

\* C8: the default polygon _roi_trapezoid builds for an image with h > 330
\* and w > 570 is simple in the vertex order given to the fill.
C8_DefaultPolygonSimple ==
    (RoiEnded /\ ~attrs.roi_point.set /\ edge.h > 330 /\ edge.w > 570)
        => IsSimplePolygon(attrs.roi_points.pts)

\* C9: no call ever starts on an instance with an even kernel size, and no
\* call raises the kernel-size error.
C9_EvenKsizeRejectedAtConstruction ==
    (calls > 0) => (KsizeOdd(attrs.ksize) /\ exc.type # "cv2.error")

\* C10: whatever calls came before on the instance, a pipeline call on an
\* image ends as a call on a freshly constructed instance of the same
\* configuration does: the same image returned, or the same exception.
C10_CallIndependentOfHistory ==
    (entry = "call" /\ pc \in {"returned", "raised"})
        => [exc |-> exc, res |-> res] = Pipeline(cfg0, img)

C10_Witness ==
    /\ entry = "call" /\ pc = "returned" /\ calls = 2
    /\ attrs_before.roi_points.set
    /\ attrs_before.roi_points.pts # DefaultRoiPoints(img.h, img.w)
    /\ res.drawn # {}
====
